---------------------------- MODULE Spec2Model ----------------------------
(***************************************************************************)
(* State-machine model of the RAG micro-service of rag_demo_fastapi.py     *)
(* (main.py is the same program with module-level startup).                *)
(*                                                                         *)
(* Text (document contents, backend replies, answers) is a sequence of     *)
(* one-character strings, so that len(), slicing, strip(), lower() and     *)
(* startswith() are computed as Python computes them.  Paths, source       *)
(* labels and questions are opaque strings: the program only copies them.  *)
(***************************************************************************)
EXTENDS Naturals, Sequences, FiniteSets, TLC

VARIABLES
    corpus,        \* the DOCS_DIR directory on disk: NoDir or a set of files
    persisted,     \* the VECTOR_PATH directory on disk: NoIndex or a saved index
    phase,         \* the process: "stopped", "up" or "failed"
    startupError,  \* why the last startup failed: "none", "load" or "index"
    raw_docs,      \* app.state.raw_docs
    db,            \* the index behind app.state.retriever
    req,           \* the request being served: its endpoint, argument and position
    docs,          \* the chunks retrieval returned to the /rag handler
    call,          \* the backend call in flight: its prompt and its outcome
    backendCalls,  \* how many times the request being served invoked the backend
    resp           \* the HTTP response of the request

vars == <<corpus, persisted, phase, startupError, raw_docs, db, req, docs,
          call, backendCalls, resp>>

-----------------------------------------------------------------------------
(* Program constants *)

CHUNK_SIZE == 800

CHUNK_OVERLAP == 100

K == 8

MAX_TOKENS == 256

PREVIEW_LEN == 160

(* Bounds of the model *)

\* /ingested_docs is called with limit in 0..MaxLimit
MaxLimit == 3

\* the longest text file of the model corpora exceeds CHUNK_SIZE by this much
LongExtra == 50

-----------------------------------------------------------------------------
(* Text *)

NL == "\n"

ELLIPSIS == "U+2026"

UpperCase ==
    <<"A","B","C","D","E","F","G","H","I","J","K","L","M",
      "N","O","P","Q","R","S","T","U","V","W","X","Y","Z">>

LowerCase ==
    <<"a","b","c","d","e","f","g","h","i","j","k","l","m",
      "n","o","p","q","r","s","t","u","v","w","x","y","z">>

LowerChar(c) ==
    IF \E i \in 1..26 : UpperCase[i] = c
    THEN LowerCase[CHOOSE i \in 1..26 : UpperCase[i] = c]
    ELSE c

\* str.lower()
Lower(s) == [i \in 1..Len(s) |-> LowerChar(s[i])]

IsSpace(c) == c \in {" ", NL, "\t"}

RECURSIVE LStrip(_)
LStrip(s) ==
    IF s = <<>> THEN s
    ELSE IF IsSpace(Head(s)) THEN LStrip(Tail(s)) ELSE s

RECURSIVE RStrip(_)
RStrip(s) ==
    IF s = <<>> THEN s
    ELSE IF IsSpace(s[Len(s)]) THEN RStrip(SubSeq(s, 1, Len(s) - 1)) ELSE s

\* str.strip()
Strip(s) == RStrip(LStrip(s))

\* str.startswith(p)
StartsWith(s, p) == Len(s) >= Len(p) /\ SubSeq(s, 1, Len(p)) = p

\* s[:n]
Take(s, n) == SubSeq(s, 1, IF Len(s) < n THEN Len(s) ELSE n)

\* str.replace("\n", " ")
ReplaceNL(s) == [i \in 1..Len(s) |-> IF s[i] = NL THEN " " ELSE s[i]]

Rep(c, n) == [i \in 1..n |-> c]

Min(a, b) == IF a < b THEN a ELSE b

Range(s) == {s[i] : i \in 1..Len(s)}

RECURSIVE Concat(_)
Concat(ss) == IF ss = <<>> THEN <<>> ELSE Head(ss) \o Concat(Tail(ss))

\* the sequences that list every element of the set S exactly once
Orders(S) ==
    {s \in [1..Cardinality(S) -> S] : \A i, j \in 1..Cardinality(S) : s[i] = s[j] => i = j}

\* "I don't know."
SORRY == <<"I"," ","d","o","n","'","t"," ","k","n","o","w",".">>

\* "i don't know"
IDK == <<"i"," ","d","o","n","'","t"," ","k","n","o","w">>

-----------------------------------------------------------------------------
(* The corpus directory *)

\* DOCS_DIR does not exist / is a directory holding these files
NoDir == [exists |-> FALSE, files |-> {}]

Dir(fs) == [exists |-> TRUE, files |-> fs]

\* VECTOR_PATH does not exist / holds this saved index
NoIndex == [exists |-> FALSE, index |-> <<>>]

Saved(ix) == [exists |-> TRUE, index |-> ix]

TEXT_SUFFIXES == {".txt", ".md", ".rst", ".log", ".csv"}

\* str.lower() on the suffixes the model corpora use
SuffixLower(x) ==
    CASE x = ".TXT" -> ".txt"
      [] x = ".MD"  -> ".md"
      [] x = ".PDF" -> ".pdf"
      [] x = ".PNG" -> ".png"
      [] OTHER      -> x

T_sky == <<"T","h","e"," ","s","k","y"," ","i","s"," ","b","l","u","e",".">>

T_lines == <<"a", NL, "b", NL>>

T_page1 == <<"p","1">>

T_page2 == <<"p","2">>

T_binary == <<"%","P","N","G">>

T_exact == Rep("x", PREVIEW_LEN)

T_over == Rep("y", PREVIEW_LEN - 1) \o <<NL, "z">>

T_long == Rep("w", CHUNK_SIZE + LongExtra)

F_a == [path |-> "documents/a.txt", suffix |-> ".txt", pages |-> <<T_sky>>]

F_notes == [path |-> "documents/sub/notes.MD", suffix |-> ".MD", pages |-> <<T_lines>>]

F_pdf == [path |-> "documents/b.pdf", suffix |-> ".pdf", pages |-> <<T_page1, T_page2>>]

F_png == [path |-> "documents/image.png", suffix |-> ".png", pages |-> <<T_binary>>]

F_empty == [path |-> "documents/empty.log", suffix |-> ".log", pages |-> << <<>> >>]

F_exact == [path |-> "documents/exact.csv", suffix |-> ".csv", pages |-> <<T_exact>>]

F_over == [path |-> "documents/over.rst", suffix |-> ".rst", pages |-> <<T_over>>]

F_long == [path |-> "documents/long.txt", suffix |-> ".TXT", pages |-> <<T_long>>]

\* the states of DOCS_DIR the model moves between
Corpora ==
    { NoDir, Dir({}), Dir({F_a}), Dir({F_a, F_notes}), Dir({F_a, F_pdf}),
      Dir({F_a, F_png}), Dir({F_empty}), Dir({F_exact, F_over}), Dir({F_long}) }

-----------------------------------------------------------------------------
(* Doc loading *)

\* which loader loader_for returns for a path with this suffix
loader_for(suffix) ==
    IF SuffixLower(suffix) = ".pdf" THEN "PyPDFLoader"
    ELSE IF SuffixLower(suffix) \in TEXT_SUFFIXES THEN "TextLoader"
    ELSE "None"

Document(content, meta) == [page_content |-> content, metadata |-> meta]

FallbackDocs ==
    << Document(<<"f","a","l","l","b","a","c","k"," ","d","o","c">>,
                [source |-> "fallback"]) >>

\* the Documents one file loads to: PyPDFLoader gives one per page, TextLoader
\* one for the file; both record the path as the source
FileDocs(f) ==
    IF loader_for(f.suffix) = "PyPDFLoader"
    THEN [i \in 1..Len(f.pages) |->
             Document(f.pages[i], [source |-> f.path, page |-> i - 1])]
    ELSE << Document(f.pages[1], [source |-> f.path]) >>

\* loader_cls of the DirectoryLoader: for a path loader_for rejects it is
\* TextLoader(""), whose load() cannot open "" and raises
LoaderRaises(f) == loader_for(f.suffix) = "None"

\* The results of load_documents(root).  The DirectoryLoader loads the files
\* on a thread pool, so the files' documents come in any file order.  When a
\* file's loader raises, the DirectoryLoader (silent_errors unset) either
\* re-raises it from load() or, collecting no worker results, loses it with
\* the file: both outcomes are kept.
load_documents(root) ==
    IF ~root.exists
    THEN { [ok |-> TRUE, docs |-> FallbackDocs] }
    ELSE LET good == {f \in root.files : ~LoaderRaises(f)}
             loaded == { [ok |-> TRUE,
                          docs |-> Concat([i \in 1..Len(o) |-> FileDocs(o[i])])] :
                         o \in Orders(good) }
         IN  IF good = root.files THEN loaded
             ELSE loaded \cup { [ok |-> FALSE, docs |-> <<>>] }

-----------------------------------------------------------------------------
(* Chunking and the index *)

\* RecursiveCharacterTextSplitter(chunk_size, chunk_overlap) on one text: a
\* text within chunk_size is one chunk; a longer text without separators
\* (the only long text of the model corpora) is cut in windows of chunk_size
\* that overlap by chunk_overlap
RECURSIVE Windows(_)
Windows(t) ==
    IF Len(t) <= CHUNK_SIZE THEN <<t>>
    ELSE <<SubSeq(t, 1, CHUNK_SIZE)>>
         \o Windows(SubSeq(t, CHUNK_SIZE - CHUNK_OVERLAP + 1, Len(t)))

\* chunks are stripped and empty chunks dropped
RECURSIVE NonEmptyStripped(_)
NonEmptyStripped(ts) ==
    IF ts = <<>> THEN <<>>
    ELSE (IF Strip(Head(ts)) = <<>> THEN <<>> ELSE <<Strip(Head(ts))>>)
         \o NonEmptyStripped(Tail(ts))

SplitText(t) == NonEmptyStripped(Windows(t))

\* splitter.split_documents(raw_docs): every chunk inherits its document's metadata
split_documents(ds) ==
    Concat([i \in 1..Len(ds) |->
               [j \in 1..Len(SplitText(ds[i].page_content)) |->
                   Document(SplitText(ds[i].page_content)[j], ds[i].metadata)]])

\* FAISS.from_documents(chunks, embedder): the index holds the chunks.  With no
\* chunk at all the library's behaviour is not fixed by this program: the
\* build yields an empty index or raises.
from_documents(chunks) ==
    IF chunks = <<>>
    THEN { [ok |-> TRUE, index |-> <<>>], [ok |-> FALSE, index |-> <<>>] }
    ELSE { [ok |-> TRUE, index |-> chunks] }

\* `if VECTOR_PATH.exists()`: the saved index is loaded instead of building one
UseSavedIndex(saved) == saved.exists

-----------------------------------------------------------------------------
(* The backend and gpt4_chat *)

R_blue == <<"B","l","u","e",".">>

R_padded == <<" ","B","l","u","e",".",NL>>

R_blank == <<" ",NL>>

R_upper == <<"I"," ","D","O","N","'","T"," ","K","N","O","W">>

R_but == <<NL>> \o IDK \o <<","," ","b","u","t">>

R_do == <<"I"," ","d","o"," ","k","n","o","w">>

\* what g4f.ChatCompletion.create_async can return as text
Replies == { <<>>, R_blank, R_blue, R_padded, SORRY, R_upper, R_but, R_do }

Pending == [kind |-> "pending", text |-> <<>>, exc |-> ""]

\* how the awaited backend call ends: it returns text, it raises, or it
\* returns something that is no text (None)
Outcomes ==
    { [kind |-> "reply", text |-> r, exc |-> ""] : r \in Replies }
    \cup { [kind |-> "raise", text |-> <<>>, exc |-> e] : e \in {"timeout", "provider_error"} }
    \cup { [kind |-> "malformed", text |-> <<>>, exc |-> ""] }

Return(v) == [raised |-> FALSE, value |-> v]

Raise(e) == [raised |-> TRUE, value |-> e]

\* gpt4_chat without its except clause: the backend's exception leaves it
gpt4_chat_uncaught(outcome) ==
    IF outcome.kind = "reply" THEN Return(Strip(outcome.text))
    ELSE Raise(outcome.kind)

\* gpt4_chat after the await: response.strip() inside the try (on a
\* response that is no text, strip itself raises there); every Exception is
\* caught and answered with the fallback message
gpt4_chat(outcome) ==
    IF outcome.kind = "reply" THEN Return(Strip(outcome.text)) ELSE Return(SORRY)

-----------------------------------------------------------------------------
(* The handlers' pure parts *)

_sorry(q) == [question |-> q, answer |-> SORRY, sources |-> <<>>]

\* rag without its early return
NoContext_never(d) == FALSE

\* `if not docs`
NoContext(d) == d = <<>>

\* the non-answer test without lower()
IsNonAnswer_cased(answer) == StartsWith(answer, IDK) \/ Strip(answer) = <<>>

\* `answer.lower().startswith("i don't know") or not answer.strip()`
IsNonAnswer(answer) == StartsWith(Lower(answer), IDK) \/ Strip(answer) = <<>>

\* the source label looked up under a key the loaders never set
SourceOf_wrongkey(d) ==
    IF "src" \in DOMAIN d.metadata THEN d.metadata.src ELSE "unknown"

\* d.metadata.get("source", "unknown")
SourceOf(d) ==
    IF "source" \in DOMAIN d.metadata THEN d.metadata.source ELSE "unknown"

\* the labels listed chunk by chunk, without the set
SourceLists_list(d) == { [i \in 1..Len(d) |-> SourceOf(d[i])] }

\* list({... for d in docs}): the labels once each, in the set's order
SourceLists(d) == Orders({SourceOf(d[i]) : i \in 1..Len(d)})

\* the prompt of /rag: instructions, the chunks' texts joined by blank lines,
\* the question
rag_prompt(d, q) ==
    [instructions |-> "helpful assistant; list relevant facts; say you don't know",
     context |-> [i \in 1..Len(d) |-> d[i].page_content],
     question |-> q]

\* the preview with the ellipsis from 160 characters on
Preview_ge(content) ==
    ReplaceNL(Take(content, PREVIEW_LEN))
    \o (IF Len(content) >= PREVIEW_LEN THEN <<ELLIPSIS>> ELSE <<>>)

\* d.page_content[:160].replace("\n", " ") + ("..." if len(d.page_content) > 160 else "")
Preview(content) ==
    ReplaceNL(Take(content, PREVIEW_LEN))
    \o (IF Len(content) > PREVIEW_LEN THEN <<ELLIPSIS>> ELSE <<>>)

\* the body /ingested_docs returns
ingested_docs(rd, limit) ==
    LET shown == Take(rd, limit)
    IN  [total |-> Len(rd),
         shown |-> Len(shown),
         docs  |-> [i \in 1..Len(shown) |->
                      [id      |-> i - 1,
                       source  |-> SourceOf(shown[i]),
                       chars   |-> Len(shown[i].page_content),
                       preview |-> Preview(shown[i].page_content)]]]

\* retriever.get_relevant_documents(question): the k chunks of the index
\* nearest to the question, all of them when the index holds fewer, in the
\* order the embedding ranks them (any order)
Retrievals(ix) ==
    LET n == Min(K, Len(ix))
    IN  { [i \in 1..n |-> ix[o[i]]] :
          o \in {s \in [1..n -> 1..Len(ix)] : \A i, j \in 1..n : s[i] = s[j] => i = j} }

-----------------------------------------------------------------------------
(* State *)

Idle ==
    [endpoint |-> "none", question |-> "", limit |-> 0, retrieval |-> "none",
     pc |-> "idle"]

NoCall == [active |-> FALSE, prompt |-> "", max_tokens |-> 0, outcome |-> Pending]

NoResp == [status |-> 0, body |-> <<>>]

Ok(body) == [status |-> 200, body |-> body]

\* 422: Query(..., min_length=1) / Query(50, ge=1) rejects the parameter
Invalid == [status |-> 422, body |-> <<>>]

\* 500: an exception left the handler
ServerError == [status |-> 500, body |-> <<>>]

Questions == {"", "anything"}

Prompts == {"", "hi"}

Init ==
    /\ corpus \in Corpora
    /\ persisted = NoIndex
    /\ phase = "stopped"
    /\ startupError = "none"
    /\ raw_docs = <<>>
    /\ db = <<>>
    /\ req = Idle
    /\ docs = <<>>
    /\ call = NoCall
    /\ backendCalls = 0
    /\ resp = NoResp

-----------------------------------------------------------------------------
(* The environment: the corpus directory changes, the process is started
   and stopped *)

ModifyCorpus(c) ==
    /\ c # corpus
    /\ corpus' = c
    /\ UNCHANGED <<persisted, phase, startupError, raw_docs, db, req, docs,
                   call, backendCalls, resp>>

\* lifespan up to its yield (main.py: the module-level statements)
Startup ==
    /\ phase = "stopped"
    /\ \E lo \in load_documents(corpus) :
         IF ~lo.ok
         THEN /\ phase' = "failed"
              /\ startupError' = "load"
              /\ UNCHANGED <<persisted, raw_docs, db>>
         ELSE LET chunks == split_documents(lo.docs)
              IN  IF UseSavedIndex(persisted)
                  THEN /\ db' = persisted.index
                       /\ raw_docs' = lo.docs
                       /\ phase' = "up"
                       /\ startupError' = "none"
                       /\ UNCHANGED persisted
                  ELSE \E bo \in from_documents(chunks) :
                         IF ~bo.ok
                         THEN /\ phase' = "failed"
                              /\ startupError' = "index"
                              /\ UNCHANGED <<persisted, raw_docs, db>>
                         ELSE /\ db' = bo.index
                              /\ persisted' = Saved(bo.index)
                              /\ raw_docs' = lo.docs
                              /\ phase' = "up"
                              /\ startupError' = "none"
    /\ UNCHANGED <<corpus, req, docs, call, backendCalls, resp>>

\* the process ends once no request is being served; its memory is gone,
\* the two directories stay
Shutdown ==
    /\ phase \in {"up", "failed"}
    /\ req.pc # "await"
    /\ phase' = "stopped"
    /\ startupError' = "none"
    /\ raw_docs' = <<>>
    /\ db' = <<>>
    /\ req' = Idle
    /\ docs' = <<>>
    /\ call' = NoCall
    /\ backendCalls' = 0
    /\ resp' = NoResp
    /\ UNCHANGED <<corpus, persisted>>

-----------------------------------------------------------------------------
(* Requests.  One request is followed through the service; the handlers
   share nothing but raw_docs and the retriever, which they only read. *)

CanAccept == phase = "up" /\ req.pc \in {"idle", "done"}

\* retrieval: whether get_relevant_documents was called for the request and
\* "returned" or "raised"
Accepted(endpoint, q, limit, retrieval, pc) ==
    req' = [endpoint |-> endpoint, question |-> q, limit |-> limit,
            retrieval |-> retrieval, pc |-> pc]

Dispatch(prompt) ==
    /\ call' = [active |-> TRUE, prompt |-> prompt, max_tokens |-> MAX_TOKENS,
                outcome |-> Pending]
    /\ backendCalls' = 1

\* GET /rag with an empty question: rejected before the handler runs
RagInvalid(q) ==
    /\ CanAccept
    /\ q = ""
    /\ Accepted("rag", q, 0, "none", "done")
    /\ resp' = Invalid
    /\ docs' = <<>>
    /\ call' = NoCall
    /\ backendCalls' = 0
    /\ UNCHANGED <<corpus, persisted, phase, startupError, raw_docs, db>>

\* GET /rag: get_relevant_documents raises (the embedding of the question or
\* the index search fails); nothing in rag catches it
RagRetrievalRaises(q) ==
    /\ CanAccept
    /\ q # ""
    /\ Accepted("rag", q, 0, "raised", "done")
    /\ resp' = ServerError
    /\ docs' = <<>>
    /\ call' = NoCall
    /\ backendCalls' = 0
    /\ UNCHANGED <<corpus, persisted, phase, startupError, raw_docs, db>>

\* GET /rag up to `await gpt4_chat(rag_prompt)`, or to the early return
RagRetrieve(q) ==
    /\ CanAccept
    /\ q # ""
    /\ \E d \in Retrievals(db) :
         /\ docs' = d
         /\ IF NoContext(d)
            THEN /\ Accepted("rag", q, 0, "returned", "done")
                 /\ resp' = Ok(_sorry(q))
                 /\ call' = NoCall
                 /\ backendCalls' = 0
            ELSE /\ Accepted("rag", q, 0, "returned", "await")
                 /\ resp' = NoResp
                 /\ Dispatch(rag_prompt(d, q))
    /\ UNCHANGED <<corpus, persisted, phase, startupError, raw_docs, db>>

\* the backend (g4f and its provider) ends the call
BackendResponds(o) ==
    /\ call.active
    /\ call.outcome = Pending
    /\ call' = [call EXCEPT !.outcome = o]
    /\ UNCHANGED <<corpus, persisted, phase, startupError, raw_docs, db, req,
                   docs, backendCalls, resp>>

\* GET /rag from the await to its return
RagResume ==
    /\ req.endpoint = "rag"
    /\ req.pc = "await"
    /\ call.outcome # Pending
    /\ LET r == gpt4_chat(call.outcome)
       IN  IF r.raised
           THEN resp' = ServerError
           ELSE IF IsNonAnswer(r.value)
                THEN resp' = Ok(_sorry(req.question))
                ELSE \E srcs \in SourceLists(docs) :
                       resp' = Ok([question |-> req.question,
                                   answer   |-> r.value,
                                   sources  |-> srcs])
    /\ req' = [req EXCEPT !.pc = "done"]
    /\ UNCHANGED <<corpus, persisted, phase, startupError, raw_docs, db, docs,
                   call, backendCalls>>

\* GET /generate with an empty prompt
GenerateInvalid(p) ==
    /\ CanAccept
    /\ p = ""
    /\ Accepted("generate", p, 0, "none", "done")
    /\ resp' = Invalid
    /\ docs' = <<>>
    /\ call' = NoCall
    /\ backendCalls' = 0
    /\ UNCHANGED <<corpus, persisted, phase, startupError, raw_docs, db>>

\* GET /generate up to `await gpt4_chat(prompt)`
GenerateDispatch(p) ==
    /\ CanAccept
    /\ p # ""
    /\ Accepted("generate", p, 0, "none", "await")
    /\ resp' = NoResp
    /\ docs' = <<>>
    /\ Dispatch(p)
    /\ UNCHANGED <<corpus, persisted, phase, startupError, raw_docs, db>>

\* GET /generate from the await to its return
GenerateResume ==
    /\ req.endpoint = "generate"
    /\ req.pc = "await"
    /\ call.outcome # Pending
    /\ LET r == gpt4_chat(call.outcome)
       IN  IF r.raised
           THEN resp' = ServerError
           ELSE resp' = Ok([prompt |-> req.question, completion |-> r.value])
    /\ req' = [req EXCEPT !.pc = "done"]
    /\ UNCHANGED <<corpus, persisted, phase, startupError, raw_docs, db, docs,
                   call, backendCalls>>

\* GET /ingested_docs
IngestedDocs(limit) ==
    /\ CanAccept
    /\ Accepted("ingested_docs", "", limit, "none", "done")
    /\ resp' = IF limit >= 1 THEN Ok(ingested_docs(raw_docs, limit)) ELSE Invalid
    /\ docs' = <<>>
    /\ call' = NoCall
    /\ backendCalls' = 0
    /\ UNCHANGED <<corpus, persisted, phase, startupError, raw_docs, db>>

Next ==
    \/ \E c \in Corpora : ModifyCorpus(c)
    \/ Startup
    \/ Shutdown
    \/ \E q \in Questions : RagInvalid(q)
    \/ \E q \in Questions : RagRetrievalRaises(q)
    \/ \E q \in Questions : RagRetrieve(q)
    \/ \E o \in Outcomes : BackendResponds(o)
    \/ RagResume
    \/ \E p \in Prompts : GenerateInvalid(p)
    \/ \E p \in Prompts : GenerateDispatch(p)
    \/ GenerateResume
    \/ \E l \in 0..MaxLimit : IngestedDocs(l)

Spec == Init /\ [][Next]_vars

\* The event loop resumes a handler whose awaited call has ended; nothing
\* makes the backend end the call.
FairSpec == Spec /\ WF_vars(RagResume) /\ WF_vars(GenerateResume)

-----------------------------------------------------------------------------
(* Properties *)

RagDone == req.endpoint = "rag" /\ req.pc = "done"

BackendFailed == call.active /\ call.outcome.kind \in {"raise", "malformed"}

BackendReplied == call.active /\ call.outcome.kind = "reply"

\* the source label of a retrieved chunk, "unknown" when it carries none
Label(d) ==
    IF "source" \in DOMAIN d.metadata THEN d.metadata.source ELSE "unknown"

\* C1: a /rag request whose retrieval returns nothing never invokes the
\* backend (the handler is not left waiting on it, no call was dispatched)
\* and answers exactly {question, "I don't know.", []}.
C1_EmptyRetrievalShortCircuits ==
    (req.endpoint = "rag" /\ req.retrieval = "returned" /\ docs = <<>>) =>
        /\ req.pc = "done"
        /\ backendCalls = 0
        /\ ~call.active
        /\ resp = Ok(_sorry(req.question))

C1_Witness ==
    /\ RagDone
    /\ req.retrieval = "returned"
    /\ docs = <<>>
    /\ db = <<>>
    /\ resp.status = 200

\* C2: when the backend call of a request fails (it raises, or returns
\* something that is no text), the request still ends with a normal response:
\* for /rag with retrieved chunks it is the sentinel, for /generate the
\* fallback completion; no exception leaves gpt4_chat or the handler.
C2_BackendFailureIsSentinel ==
    (req.pc = "done" /\ BackendFailed) =>
        /\ resp.status = 200
        /\ req.endpoint = "rag" =>
             (docs # <<>> /\ resp.body = _sorry(req.question))
        /\ req.endpoint = "generate" => resp.body.completion = SORRY

C2_Witness ==
    /\ RagDone
    /\ docs # <<>>
    /\ call.active
    /\ call.outcome.kind = "raise"
    /\ call.outcome.exc = "timeout"
    /\ resp.status = 200

\* C3: when the backend's reply is empty after trimming, or starts with
\* "i don't know" in any letter case (before or after trimming), the /rag
\* response is the sentinel: answer "I don't know." and no sources, whatever
\* chunks were retrieved.
C3_NonAnswerIsSentinel ==
    (RagDone /\ BackendReplied
       /\ \/ Strip(call.outcome.text) = <<>>
          \/ StartsWith(Lower(call.outcome.text), IDK)
          \/ StartsWith(Lower(Strip(call.outcome.text)), IDK)) =>
        /\ resp.status = 200
        /\ resp.body.question = req.question
        /\ resp.body.answer = SORRY
        /\ resp.body.sources = <<>>

C3_Witness ==
    /\ RagDone
    /\ BackendReplied
    /\ call.outcome.text = R_upper
    /\ Len(docs) >= 2
    /\ resp.status = 200

\* C4: a /rag request that retrieved chunks and got a backend reply that is
\* an answer (non-empty after trimming, not starting with "i don't know")
\* returns the trimmed reply, and sources holds the source label of every
\* retrieved chunk ("unknown" for a chunk without one) exactly once and
\* nothing else.
C4_AnswerCarriesSources ==
    (RagDone /\ BackendReplied /\ docs # <<>>
       /\ Strip(call.outcome.text) # <<>>
       /\ ~StartsWith(Lower(Strip(call.outcome.text)), IDK)) =>
        /\ resp.status = 200
        /\ resp.body.question = req.question
        /\ resp.body.answer = Strip(call.outcome.text)
        /\ \A i \in 1..Len(docs) :
             Cardinality({j \in 1..Len(resp.body.sources) :
                            resp.body.sources[j] = Label(docs[i])}) = 1
        /\ \A j \in 1..Len(resp.body.sources) :
             \E i \in 1..Len(docs) : Label(docs[i]) = resp.body.sources[j]

C4_Witness ==
    /\ RagDone
    /\ BackendReplied
    /\ call.outcome.text = R_padded
    /\ resp.status = 200
    /\ resp.body.answer = R_blue
    /\ Len(docs) = 3
    /\ Len(resp.body.sources) = 2

\* the process was started without a corpus directory
StartedWithoutCorpus == phase = "up" /\ raw_docs = FallbackDocs

\* C5 as stated: started without a corpus directory, every /rag request that
\* is answered is answered with exactly the sentinel.
C5_AbsentCorpusAlwaysSorry ==
    (StartedWithoutCorpus /\ RagDone /\ resp.status = 200) =>
        resp.body = _sorry(req.question)

\* C5 amended: started without a corpus directory, the document list is the
\* one fallback document and a /rag request for a non-empty question q ends
\* in one of three ways: an error response when retrieval raises; exactly
\* the sentinel when retrieval is empty, the backend fails or its reply is a
\* non-answer; otherwise the trimmed backend reply with the source labels of
\* the retrieved chunks, which is ["fallback"] when the index is the one
\* built from the fallback document.
C5_AbsentCorpusAnswer ==
    (StartedWithoutCorpus /\ RagDone /\ req.question # "") =>
        \/ req.retrieval = "raised" /\ resp.status = 500
        \/ /\ req.retrieval = "returned"
           /\ \/ docs = <<>>
              \/ BackendFailed
              \/ BackendReplied /\ Strip(call.outcome.text) = <<>>
              \/ BackendReplied /\ StartsWith(Lower(Strip(call.outcome.text)), IDK)
           /\ resp = Ok(_sorry(req.question))
        \/ /\ req.retrieval = "returned"
           /\ docs # <<>>
           /\ BackendReplied
           /\ Strip(call.outcome.text) # <<>>
           /\ ~StartsWith(Lower(Strip(call.outcome.text)), IDK)
           /\ resp.status = 200
           /\ resp.body.question = req.question
           /\ resp.body.answer = Strip(call.outcome.text)
           /\ {resp.body.sources[j] : j \in 1..Len(resp.body.sources)}
                = {Label(docs[i]) : i \in 1..Len(docs)}
           /\ db = split_documents(FallbackDocs) => resp.body.sources = <<"fallback">>

C5_Witness ==
    /\ StartedWithoutCorpus
    /\ RagDone
    /\ req.question = "anything"
    /\ db = split_documents(FallbackDocs)
    /\ resp.status = 200
    /\ resp.body.answer = R_blue
    /\ resp.body.sources = <<"fallback">>

\* C6: whenever the service is up, the index its retriever searches holds
\* the chunks of the documents loaded at that startup, i.e. of the corpus as
\* it was at that (re)start.
C6_RestartPicksUpCorpus ==
    phase = "up" =>
        {db[i] : i \in 1..Len(db)}
          = {split_documents(raw_docs)[i] : i \in 1..Len(split_documents(raw_docs))}

\* C7: /ingested_docs with limit L >= 1 over N loaded documents returns
\* total = N, shown = min(L, N), shown entries with ids 0..shown-1 in the
\* order of the document list, chars the length of each document's content,
\* and a preview of the first 160 characters' length plus one ellipsis marker
\* exactly when the content is longer than 160: at most 161 characters.
C7_IngestedDocsShape ==
    (req.endpoint = "ingested_docs" /\ req.pc = "done" /\ req.limit >= 1) =>
        /\ resp.status = 200
        /\ resp.body.total = Len(raw_docs)
        /\ resp.body.shown = Min(req.limit, Len(raw_docs))
        /\ Len(resp.body.docs) = resp.body.shown
        /\ \A i \in 1..Len(resp.body.docs) :
             LET e == resp.body.docs[i]
                 c == raw_docs[i].page_content
             IN  /\ e.id = i - 1
                 /\ e.source = Label(raw_docs[i])
                 /\ e.chars = Len(c)
                 /\ Len(e.preview) <= 161
                 /\ Len(e.preview) = Min(Len(c), 160) + (IF Len(c) > 160 THEN 1 ELSE 0)
                 /\ (e.preview # <<>> /\ e.preview[Len(e.preview)] = ELLIPSIS)
                      <=> Len(c) > 160
                 /\ \A k \in 1..Min(Len(c), 160) :
                      e.preview[k] = c[k] \/ (c[k] = NL /\ e.preview[k] = " ")

C7_Witness ==
    /\ req.endpoint = "ingested_docs"
    /\ req.pc = "done"
    /\ req.limit = 1
    /\ resp.status = 200
    /\ resp.body.total = 2
    /\ resp.body.shown = 1
    /\ Len(resp.body.docs[1].preview) = 161

\* the extensions load_documents is said to support, in any letter case
Supported(suffix) ==
    SuffixLower(suffix) \in {".txt", ".md", ".rst", ".log", ".csv", ".pdf"}

\* C8: a startup over an existing corpus directory does not fail in
\* load_documents, and the loaded list holds exactly one document, with a
\* non-empty source, for every file with a supported extension and none for
\* any other file.
C8_OneDocumentPerSupportedFile ==
    [][ (phase = "stopped" /\ phase' # "stopped" /\ corpus.exists) =>
          /\ startupError' # "load"
          /\ phase' = "up" =>
               /\ \A f \in corpus.files :
                    Cardinality({i \in 1..Len(raw_docs') :
                                   raw_docs'[i].metadata.source = f.path})
                      = (IF Supported(f.suffix) THEN 1 ELSE 0)
               /\ \A i \in 1..Len(raw_docs') :
                    /\ raw_docs'[i].metadata.source # ""
                    /\ \E f \in corpus.files : raw_docs'[i].metadata.source = f.path
      ]_vars

\* C9: while the service is up, a /rag or /generate request whose retrieval
\* or backend call failed ends with a normal response carrying the
\* "I don't know." answer, never with an unhandled exception.
C9_NoServerError ==
    (phase = "up" /\ req.endpoint \in {"rag", "generate"} /\ req.pc = "done"
       /\ (req.retrieval = "raised" \/ BackendFailed)) =>
        /\ resp.status = 200
        /\ req.endpoint = "rag" => resp.body.answer = SORRY
        /\ req.endpoint = "generate" => resp.body.completion = SORRY

\* C10: a request that is waiting on the backend call eventually gets its
\* response, whether or not the backend ever replies.
C10_BackendCallCompletes == (req.pc = "await") ~> (req.pc = "done")

=============================================================================
